---------------------------- MODULE Spec2Model ----------------------------
(***************************************************************************)
(* Model of tools/find_esp_devices.py: the serial-port scan of             *)
(* find_esp_devices(), the regular-expression parser                       *)
(* parse_esptool_output() and the table printed at the end of the scan.    *)
(*                                                                         *)
(* Text is modelled as a sequence of one-character strings, so that        *)
(* len(), str.strip(), str.ljust(), str.join() and re.search() are         *)
(* computed character by character as Python computes them.                *)
(***************************************************************************)
EXTENDS Integers, Sequences, FiniteSets, TLC

(***************************************************************************)
(* Bounds of the model.                                                    *)
(***************************************************************************)
\* largest number of serial ports comports() returns
MaxPorts == 2
\* largest number of lines of esptool.py output explored by SpecParse
MaxLines == 2

(***************************************************************************)
(* Characters and Python's string primitives.                              *)
(***************************************************************************)
Digit ==
    {"0", "1", "2", "3", "4", "5", "6", "7", "8", "9"}

\* [0-9a-fA-F]
HexDigit ==
    Digit \cup {"a", "b", "c", "d", "e", "f", "A", "B", "C", "D", "E", "F"}

Upper ==
    {"A", "B", "C", "D", "E", "F", "G", "H", "I", "J", "K", "L", "M",
     "N", "O", "P", "Q", "R", "S", "T", "U", "V", "W", "X", "Y", "Z"}

Lower ==
    {"a", "b", "c", "d", "e", "f", "g", "h", "i", "j", "k", "l", "m",
     "n", "o", "p", "q", "r", "s", "t", "u", "v", "w", "x", "y", "z"}

\* \w
WordChar ==
    Upper \cup Lower \cup Digit \cup {"_"}

\* the characters str.strip() removes
Whitespace ==
    {" ", "\t", "\n", "\r", "\f"}

Max(a, b) ==
    IF a >= b THEN a ELSE b

\* n copies of the character c: c * n
Repeat(c, n) ==
    [i \in 1..n |-> c]

\* str.ljust(width): pad with spaces on the right, never truncate
ljust(s, width) ==
    s \o Repeat(" ", Max(width - Len(s), 0))

\* str.strip()
strip(s) ==
    LET keep == {i \in 1..Len(s) : s[i] \notin Whitespace}
    IN  IF keep = {} THEN <<>>
        ELSE LET lo == CHOOSE i \in keep : \A j \in keep : i <= j
                 hi == CHOOSE i \in keep : \A j \in keep : i >= j
             IN  SubSeq(s, lo, hi)

\* sep.join(parts)
RECURSIVE join(_, _)
join(sep, parts) ==
    IF Len(parts) = 0 THEN <<>>
    ELSE IF Len(parts) = 1 THEN parts[1]
    ELSE parts[1] \o sep \o join(sep, Tail(parts))

\* does the literal lit occur in s at index i
StartsAt(s, i, lit) ==
    /\ i + Len(lit) - 1 <= Len(s)
    /\ \A k \in 1..Len(lit) : s[i + k - 1] = lit[k]

\* s.split(sep): cut at the leftmost occurrences of sep, left to right
RECURSIVE split_from(_, _, _)
split_from(s, sep, start) ==
    LET found == {k \in start..Len(s) : StartsAt(s, k, sep)}
    IN  IF found = {} THEN <<SubSeq(s, start, Len(s))>>
        ELSE LET k == CHOOSE a \in found : \A b \in found : a <= b
             IN  <<SubSeq(s, start, k - 1)>>
                 \o split_from(s, sep, k + Len(sep))

split(s, sep) ==
    split_from(s, sep, 1)

(***************************************************************************)
(* re.search(): the nine patterns of parse_esptool_output.  A pattern is  *)
(* a literal prefix, in which AnyChar stands for the regular expression's     *)
(* unescaped '.', followed by the one capturing group.                     *)
(***************************************************************************)
AnyChar ==
    "<any>"

NA ==
    <<"N", "/", "A">>

LIT_esptool ==
    <<"e", "s", "p", "t", "o", "o", "l", AnyChar, "p", "y", " ">>
LIT_chip_type ==
    <<"D", "e", "t", "e", "c", "t", "i", "n", "g", " ", "c", "h", "i", "p",
      " ", "t", "y", "p", "e", AnyChar, AnyChar, AnyChar, " ">>
LIT_features ==
    <<"F", "e", "a", "t", "u", "r", "e", "s", ":", " ">>
LIT_crystal ==
    <<"C", "r", "y", "s", "t", "a", "l", " ", "i", "s", " ">>
LIT_usb_mode ==
    <<"U", "S", "B", " ", "m", "o", "d", "e", ":", " ">>
LIT_mac ==
    <<"M", "A", "C", ":", " ">>
LIT_manufacturer ==
    <<"M", "a", "n", "u", "f", "a", "c", "t", "u", "r", "e", "r", ":", " ">>
LIT_device ==
    <<"D", "e", "v", "i", "c", "e", ":", " ">>
LIT_flash_size ==
    <<"D", "e", "t", "e", "c", "t", "e", "d", " ", "f", "l", "a", "s", "h",
      " ", "s", "i", "z", "e", ":", " ">>
LIT_MHz ==
    <<"M", "H", "z">>
LIT_ESP32 ==
    <<"E", "S", "P", "3", "2">>

\* the keys of the patterns dict, in its insertion order
PatternKeys ==
    <<"esptool_version", "chip_type", "features", "crystal", "usb_mode",
      "mac", "manufacturer", "device", "flash_size">>

\* the patterns dict: key -> (literal prefix, shape of the group)
patterns ==
    [esptool_version |-> [prefix |-> LIT_esptool,      group |-> "version"],
     chip_type       |-> [prefix |-> LIT_chip_type,    group |-> "chip"],
     features        |-> [prefix |-> LIT_features,     group |-> "rest"],
     crystal         |-> [prefix |-> LIT_crystal,      group |-> "mhz"],
     usb_mode        |-> [prefix |-> LIT_usb_mode,     group |-> "rest"],
     mac             |-> [prefix |-> LIT_mac,          group |-> "mac"],
     manufacturer    |-> [prefix |-> LIT_manufacturer, group |-> "hex"],
     device          |-> [prefix |-> LIT_device,       group |-> "hex"],
     flash_size      |-> [prefix |-> LIT_flash_size,   group |-> "rest"]]

\* one pattern character against one text character ('.' is not '\n')
CharMatches(p, c) ==
    IF p = AnyChar THEN c # "\n" ELSE c = p

\* the literal part of a pattern matches s at index i
PrefixAt(s, i, lit) ==
    /\ i + Len(lit) - 1 <= Len(s)
    /\ \A k \in 1..Len(lit) : CharMatches(lit[k], s[i + k - 1])

\* greedy [class]*: the index after the longest run of class characters at j
RunEnd(s, j, class) ==
    CHOOSE k \in j..Max(Len(s) + 1, j) :
        /\ \A m \in j..(k - 1) : m <= Len(s) /\ s[m] \in class
        /\ k > Len(s) \/ s[k] \notin class

\* greedy .*: the index after the last character before the next newline
LineEnd(s, j) ==
    CHOOSE k \in j..Max(Len(s) + 1, j) :
        /\ \A m \in j..(k - 1) : m <= Len(s) /\ s[m] # "\n"
        /\ k > Len(s) \/ s[k] = "\n"

\* (ESP32-S\d|ESP32-C\d[\w-]*|ESP32-H\d[\w-]*|ESP32-P\d|ESP32), tried in
\* this order; the result is the index after the group, 0 for no match
ChipEnd(s, j) ==
    LET fam(c)  == /\ StartsAt(s, j, LIT_ESP32 \o <<"-", c>>)
                   /\ j + 7 <= Len(s)
                   /\ s[j + 7] \in Digit
    IN  IF fam("S") THEN j + 8
        ELSE IF fam("C") THEN RunEnd(s, j + 8, WordChar \cup {"-"})
        ELSE IF fam("H") THEN RunEnd(s, j + 8, WordChar \cup {"-"})
        ELSE IF fam("P") THEN j + 8
        ELSE IF StartsAt(s, j, LIT_ESP32) THEN j + 5
        ELSE 0

\* the index after the capturing group that starts at j, 0 for no match
GroupEnd(group, s, j) ==
    CASE group = "version" ->
            \* (v[\d.]+)
            IF j <= Len(s) /\ s[j] = "v"
               /\ RunEnd(s, j + 1, Digit \cup {"."}) > j + 1
            THEN RunEnd(s, j + 1, Digit \cup {"."}) ELSE 0
      [] group = "chip" -> ChipEnd(s, j)
      [] group = "rest" ->
            \* (.+)
            IF LineEnd(s, j) > j THEN LineEnd(s, j) ELSE 0
      [] group = "mhz" ->
            \* (\d+MHz)
            IF RunEnd(s, j, Digit) > j
               /\ StartsAt(s, RunEnd(s, j, Digit), LIT_MHz)
            THEN RunEnd(s, j, Digit) + 3 ELSE 0
      [] group = "mac" ->
            \* ([0-9a-fA-F:]+)
            IF RunEnd(s, j, HexDigit \cup {":"}) > j
            THEN RunEnd(s, j, HexDigit \cup {":"}) ELSE 0
      [] group = "hex" ->
            \* ([0-9a-fA-F]+)
            IF RunEnd(s, j, HexDigit) > j
            THEN RunEnd(s, j, HexDigit) ELSE 0

\* the pattern matches s starting exactly at index i
MatchAt(pat, s, i) ==
    /\ PrefixAt(s, i, pat.prefix)
    /\ GroupEnd(pat.group, s, i + Len(pat.prefix)) # 0

\* match.group(1) of the match that starts at index i
Group1(pat, s, i) ==
    SubSeq(s, i + Len(pat.prefix),
           GroupEnd(pat.group, s, i + Len(pat.prefix)) - 1)

\* re.search(pattern, text): the start index of the leftmost match, 0 for
\* None
re_search(pat, s) ==
    LET found == {k \in 1..Len(s) : MatchAt(pat, s, k)}
    IN  IF found = {} THEN 0
        ELSE CHOOSE a \in found : \A b \in found : a <= b

\* parse_field taking the rightmost match instead of the leftmost
parse_field_rightmost(key, output_text) ==
    LET found == {k \in 1..Len(output_text) :
                     MatchAt(patterns[key], output_text, k)}
    IN  IF found = {} THEN NA
        ELSE LET k == CHOOSE a \in found : \A b \in found : a >= b
             IN  strip(Group1(patterns[key], output_text, k))

\* the body of the loop of parse_esptool_output for one key
parse_field(key, output_text) ==
    LET match == re_search(patterns[key], output_text)
    IN  IF match # 0
        THEN strip(Group1(patterns[key], output_text, match))
        ELSE NA

\* parse_esptool_output(output_text): the info dict
parse_esptool_output(output_text) ==
    [key \in {PatternKeys[i] : i \in 1..Len(PatternKeys)} |->
        parse_field(key, output_text)]

(***************************************************************************)
(* The table: headers, column widths and lines (lines 97-126).             *)
(***************************************************************************)
H_port ==
    <<"S", "e", "r", "i", "a", "l", " ", "P", "o", "r", "t">>
H_esptool_version ==
    <<"e", "s", "p", "t", "o", "o", "l", ".", "p", "y">>
H_chip_type ==
    <<"C", "h", "i", "p", " ", "T", "y", "p", "e">>
H_features ==
    <<"F", "e", "a", "t", "u", "r", "e", "s">>
H_crystal ==
    <<"C", "r", "y", "s", "t", "a", "l">>
H_usb_mode ==
    <<"U", "S", "B", " ", "M", "o", "d", "e">>
H_mac ==
    <<"M", "A", "C">>
H_manufacturer ==
    <<"M", "a", "n", "u", "f", "a", "c", "t", "u", "r", "e", "r">>
H_device ==
    <<"D", "e", "v", "i", "c", "e">>
H_flash_size ==
    <<"F", "l", "a", "s", "h", " ", "S", "i", "z", "e">>
SEP ==
    <<" ", "|", " ">>
SEPDASH ==
    <<"-", "+", "-">>

\* the keys of the headers dict, in its insertion order
HeaderKeys ==
    <<"port", "esptool_version", "chip_type", "features", "crystal",
      "usb_mode", "mac", "manufacturer", "device", "flash_size">>

headers ==
    [port |-> H_port, esptool_version |-> H_esptool_version,
     chip_type |-> H_chip_type, features |-> H_features,
     crystal |-> H_crystal, usb_mode |-> H_usb_mode, mac |-> H_mac,
     manufacturer |-> H_manufacturer, device |-> H_device,
     flash_size |-> H_flash_size]

\* dict.get(key, default)
get(d, key, default) ==
    IF key \in DOMAIN d THEN d[key] ELSE default

\* widen without the max(): the width of the last value seen
widen_overwriting(widths, device) ==
    [key \in DOMAIN widths \cup DOMAIN device |->
        IF key \in DOMAIN device THEN Len(device[key]) ELSE widths[key]]

\* one pass of the outer loop of lines 108-110 over one device
widen(widths, device) ==
    [key \in DOMAIN widths \cup DOMAIN device |->
        IF key \in DOMAIN device
        THEN Max(get(widths, key, 0), Len(device[key]))
        ELSE widths[key]]

\* col_widths after lines 107-110
RECURSIVE widen_all(_, _)
widen_all(widths, devices) ==
    IF devices = <<>> THEN widths
    ELSE widen_all(widen(widths, devices[1]), Tail(devices))

col_widths(devices) ==
    widen_all([key \in DOMAIN headers |-> Len(headers[key])], devices)

\* line 113
header_line(widths) ==
    join(SEP, [c \in 1..Len(HeaderKeys) |->
                  ljust(headers[HeaderKeys[c]], widths[HeaderKeys[c]])])

\* line 114
separator(widths) ==
    join(SEPDASH, [c \in 1..Len(HeaderKeys) |->
                      Repeat("-", widths[HeaderKeys[c]])])

\* row_line iterating over the keys of the device dict, in its insertion
\* order, instead of the keys of headers
row_line_in_device_order(device, widths) ==
    join(SEP, [c \in 1..Len(HeaderKeys) |->
                  LET key == (PatternKeys \o <<"port">>)[c]
                  IN  ljust(get(device, key, NA), widths[key])])

\* line 124
row_line(device, widths) ==
    join(SEP, [c \in 1..Len(HeaderKeys) |->
                  ljust(get(device, HeaderKeys[c], NA), widths[HeaderKeys[c]])])

\* "=" * len(header_line)
rule(widths) ==
    Repeat("=", Len(header_line(widths)))

\* one printed line: what it is and the text interpolated into it
Line(kind, text) ==
    [kind |-> kind, text |-> text]

\* the lines printed by lines 116-126
table_lines(devices) ==
    LET widths == col_widths(devices)
    IN  <<Line("blank", <<>>), Line("table_rule", rule(widths)),
          Line("table_title", <<>>), Line("table_rule", rule(widths)),
          Line("table_header", header_line(widths)),
          Line("table_separator", separator(widths))>>
        \o [r \in 1..Len(devices) |->
               Line("table_row", row_line(devices[r], widths))]
        \o <<Line("table_rule", rule(widths))>>

\* the lines printed by lines 129-131
banner_lines ==
    <<Line("blank", <<>>), Line("banner_rule", Repeat("=", 50)),
      Line("banner_text", <<>>), Line("banner_rule", Repeat("=", 50))>>

(***************************************************************************)
(* The environment of one scan: the serial ports of the machine and what  *)
(* esptool.py does on each of them.                                        *)
(***************************************************************************)
DEV_S0 ==
    <<"/", "d", "e", "v", "/", "t", "t", "y", "S", "0">>
DEV_USB0 ==
    <<"/", "d", "e", "v", "/", "t", "t", "y", "U", "S", "B", "0">>
DEV_USB1 ==
    <<"/", "d", "e", "v", "/", "t", "t", "y", "U", "S", "B", "1">>
LINE_version ==
    <<"e", "s", "p", "t", "o", "o", "l", ".", "p", "y", " ", "v", "4", ".", "7", ".", "0", "\n">>
LINE_chip_s3 ==
    <<"D", "e", "t", "e", "c", "t", "i", "n", "g", " ", "c", "h", "i", "p", " ", "t", "y", "p", "e", ".", ".", ".", " ", "E", "S", "P", "3", "2", "-", "S", "3", "\n">>
LINE_chip_c6 ==
    <<"D", "e", "t", "e", "c", "t", "i", "n", "g", " ", "c", "h", "i", "p", " ", "t", "y", "p", "e", ".", ".", ".", " ", "E", "S", "P", "3", "2", "-", "C", "6", "1", "-", "x", "\n">>
LINE_features ==
    <<"F", "e", "a", "t", "u", "r", "e", "s", ":", " ", "W", "i", "F", "i", ",", " ", "B", "L", "E", "\n">>
LINE_features_pipe ==
    <<"F", "e", "a", "t", "u", "r", "e", "s", ":", " ", "W", "i", "F", "i", " ", "|", " ", "B", "L", "E", "\n">>
LINE_features_blank ==
    <<"F", "e", "a", "t", "u", "r", "e", "s", ":", " ", " ", "\n">>
LINE_crystal ==
    <<"C", "r", "y", "s", "t", "a", "l", " ", "i", "s", " ", "4", "0", "M", "H", "z", "\n">>
LINE_usb_mode ==
    <<"U", "S", "B", " ", "m", "o", "d", "e", ":", " ", "U", "S", "B", "-", "S", "e", "r", "i", "a", "l", "/", "J", "T", "A", "G", " ", "\r", "\n">>
LINE_mac ==
    <<"M", "A", "C", ":", " ", "2", "4", ":", "0", "a", ":", "c", "4", ":", "0", "0", ":", "0", "0", ":", "0", "1", "\n">>
LINE_mac2 ==
    <<"M", "A", "C", ":", " ", "f", "f", ":", "e", "e", "\n">>
LINE_manufacturer_device ==
    <<"M", "a", "n", "u", "f", "a", "c", "t", "u", "r", "e", "r", ":", " ", "c", "8", " ", "D", "e", "v", "i", "c", "e", ":", " ", "4", "0", "1", "7", "\n">>
LINE_device_bad ==
    <<"D", "e", "v", "i", "c", "e", ":", " ", "z", "z", "\n">>
LINE_flash_size ==
    <<"D", "e", "t", "e", "c", "t", "e", "d", " ", "f", "l", "a", "s", "h", " ", "s", "i", "z", "e", ":", " ", "8", "M", "B", "\n">>
STDERR_fatal ==
    <<"w", "a", "r", "n", "i", "n", "g", "\n", "A", " ", "f", "a", "t", "a", "l", " ", "e", "r", "r", "o", "r", " ", "o", "c", "c", "u", "r", "r", "e", "d", "\n">>
ERR_os ==
    <<"P", "e", "r", "m", "i", "s", "s", "i", "o", "n", " ", "d", "e", "n", "i", "e", "d">>

\* the device paths of the serial ports, in the order sorted() gives them
DevicePaths ==
    <<DEV_S0, DEV_USB0, DEV_USB1>>

\* a port descriptor of serial.tools.list_ports: port.device
Port(device) ==
    [device |-> device]

\* what comports() can do: raise e, or return the list ports
ComportsResults ==
    {[raises |-> TRUE, e |-> ERR_os, ports |-> <<>>]}
    \cup {[raises |-> FALSE, e |-> <<>>, ports |-> ps] :
            ps \in {qs \in UNION {[1..n -> {Port(DevicePaths[d]) :
                                              d \in 1..Len(DevicePaths)}] :
                                     n \in 0..MaxPorts} :
                       \A a, b \in 1..Len(qs) : a # b => qs[a] # qs[b]}}

\* the esptool.py outputs the scan is explored with
TEXT_scenario ==
    LINE_chip_s3 \o LINE_mac
TEXT_full ==
    LINE_version \o LINE_chip_c6 \o LINE_features \o LINE_crystal
    \o LINE_usb_mode \o LINE_mac2 \o LINE_manufacturer_device
    \o LINE_flash_size
SampleTexts ==
    {TEXT_scenario, TEXT_full, LINE_features_pipe, <<>>}

\* what subprocess.run() can do on one port
Outcome(kind, out, err, e) ==
    [kind |-> kind, stdout |-> out, stderr |-> err, e |-> e]

RunOutcomes ==
    {Outcome("exit0", t, <<>>, <<>>) : t \in SampleTexts}
    \cup {Outcome("nonzero", <<>>, STDERR_fatal, <<>>),
          Outcome("timeout", <<>>, <<>>, <<>>),
          Outcome("not_found", <<>>, <<>>, <<>>),
          Outcome("exception", <<>>, <<>>, ERR_os)}

\* the esptool.py outputs the parser is explored with: up to MaxLines lines
OutputLines ==
    {LINE_version, LINE_chip_s3, LINE_chip_c6, LINE_features_pipe,
     LINE_features_blank, LINE_crystal, LINE_usb_mode, LINE_mac, LINE_mac2,
     LINE_manufacturer_device, LINE_device_bad, LINE_flash_size}

RECURSIVE concat(_)
concat(ls) ==
    IF ls = <<>> THEN <<>> ELSE ls[1] \o concat(Tail(ls))

OutputTexts ==
    {concat(ls) : ls \in UNION {[1..n -> OutputLines] : n \in 0..MaxLines}}

(***************************************************************************)
(* The state of find_esp_devices.                                          *)
(***************************************************************************)
VARIABLES
    verbose,          \* the argument of find_esp_devices
    comports,         \* what serial.tools.list_ports.comports() does
    run,              \* what subprocess.run() does on each port
    pc,               \* "enumerate" (line 44), "probe" (line 63),
                      \* "report" (line 97), "return" (lines 51, 56, 89),
                      \* "end" (after line 131)
    ports,            \* sorted(ports), the list the loop iterates over
    i,                \* the position of the loop in ports
    detected_devices, \* the list of device_info dicts
    stdout,           \* the lines printed to sys.stdout
    stderr,           \* the lines printed to sys.stderr
    spawned,          \* the --port arguments of the processes spawned
    prev              \* the outcome of the previous invocation, if any

vars ==
    <<verbose, comports, run, pc, ports, i, detected_devices, stdout,
      stderr, spawned, prev>>

Range(s) ==
    {s[k] : k \in 1..Len(s)}

\* the order of ListPortInfo: by device path
Rank(port) ==
    CHOOSE r \in 1..Len(DevicePaths) : DevicePaths[r] = port.device

\* sorted left out: the ports as comports() returned them
unsorted(ps) ==
    ps

\* sorted(ports)
RECURSIVE sorted(_)
sorted(ps) ==
    IF ps = <<>> THEN <<>>
    ELSE LET m == CHOOSE k \in 1..Len(ps) :
                      \A j \in 1..Len(ps) : Rank(ps[k]) <= Rank(ps[j])
         IN  <<ps[m]>> \o sorted([k \in 1..(Len(ps) - 1) |->
                                     IF k < m THEN ps[k] ELSE ps[k + 1]])

\* str(n) for the port counts of the model
str(n) ==
    <<<<"0">>, <<"1">>, <<"2">>, <<"3">>, <<"4">>, <<"5">>, <<"6">>,
      <<"7">>, <<"8">>, <<"9">>>>[n + 1]

\* a print without its "if verbose:"
Unconditionally(lines) ==
    lines

\* the lines an "if verbose: print(...)" writes
IfVerbose(lines) ==
    IF verbose THEN lines ELSE <<>>

Start ==
    /\ pc = "enumerate"
    /\ ports = <<>>
    /\ i = 1
    /\ detected_devices = <<>>
    /\ stdout = <<>>
    /\ stderr = <<>>
    /\ spawned = <<>>

Init ==
    /\ verbose \in BOOLEAN
    /\ comports \in ComportsResults
    /\ run \in [Range(comports.ports) -> RunOutcomes]
    /\ prev = <<>>
    /\ Start

\* EnumerateFail printing the error to sys.stdout
EnumerateFail_to_stdout ==
    /\ pc = "enumerate"
    /\ comports.raises
    /\ stdout' = stdout \o IfVerbose(<<Line("scanning", <<>>)>>)
                 \o <<Line("enumeration_failed", comports.e)>>
    /\ pc' = "return"
    /\ UNCHANGED <<verbose, comports, run, ports, i, detected_devices,
                   stderr, spawned, prev>>

\* lines 44-51: comports() raises
EnumerateFail ==
    /\ pc = "enumerate"
    /\ comports.raises
    /\ stdout' = stdout \o IfVerbose(<<Line("scanning", <<>>)>>)
    /\ stderr' = Append(stderr, Line("enumeration_failed", comports.e))
    /\ pc' = "return"
    /\ UNCHANGED <<verbose, comports, run, ports, i, detected_devices,
                   spawned, prev>>

\* lines 44-56: comports() returns no port
EnumerateEmpty ==
    /\ pc = "enumerate"
    /\ ~comports.raises
    /\ comports.ports = <<>>
    /\ stdout' = stdout \o IfVerbose(<<Line("scanning", <<>>),
                                       Line("no_ports", <<>>)>>)
    /\ pc' = "return"
    /\ UNCHANGED <<verbose, comports, run, ports, i, detected_devices,
                   stderr, spawned, prev>>

\* lines 44-63: comports() returns ports; the loop starts
EnumerateOk ==
    /\ pc = "enumerate"
    /\ ~comports.raises
    /\ comports.ports # <<>>
    /\ stdout' = stdout
                 \o IfVerbose(<<Line("scanning", <<>>),
                                Line("ports_found", str(Len(comports.ports)))>>)
    /\ detected_devices' = <<>>
    /\ ports' = sorted(comports.ports)
    /\ i' = 1
    /\ pc' = "probe"
    /\ UNCHANGED <<verbose, comports, run, stderr, spawned, prev>>

\* lines 63-75: the loop takes the next port and spawns esptool.py on it
Spawns(port) ==
    /\ pc = "probe"
    /\ i <= Len(ports)
    /\ port = ports[i]
    /\ spawned' = Append(spawned, port.device)

\* lines 64-65
Checking(port) ==
    IfVerbose(<<Line("blank", <<>>), Line("checking", port.device)>>)

\* the end of one iteration: the next port, or line 97 after the last one
NextPort ==
    /\ i' = i + 1
    /\ pc' = IF i = Len(ports) THEN "report" ELSE "probe"

\* lines 80-82
device_info(port, result) ==
    LET info == parse_esptool_output(result.stdout)
    IN  [key \in DOMAIN info \cup {"port"} |->
            IF key = "port" THEN port.device ELSE info[key]]

\* ProbeSuccess with lines 80-82 indented under the "if verbose:" of line 78
ProbeSuccess_only_if_verbose ==
    \E port \in Range(ports) :
        /\ Spawns(port)
        /\ run[port].kind = "exit0"
        /\ stdout' = stdout \o Checking(port)
                     \o IfVerbose(<<Line("success", port.device)>>)
        /\ detected_devices' =
               IF verbose
               THEN Append(detected_devices, device_info(port, run[port]))
               ELSE detected_devices
        /\ NextPort
        /\ UNCHANGED <<verbose, comports, run, ports, stderr, prev>>

\* lines 63-82: esptool.py exits with status 0
ProbeSuccess ==
    \E port \in Range(ports) :
        /\ Spawns(port)
        /\ run[port].kind = "exit0"
        /\ stdout' = stdout \o Checking(port)
                     \o IfVerbose(<<Line("success", port.device)>>)
        /\ detected_devices' =
               Append(detected_devices, device_info(port, run[port]))
        /\ NextPort
        /\ UNCHANGED <<verbose, comports, run, ports, stderr, prev>>

\* line 84: result.stderr.strip().split('\n')[-1]
error_message(result) ==
    LET parts == split(strip(result.stderr), <<"\n">>)
    IN  parts[Len(parts)]

\* lines 63-77, 83-85: esptool.py exits with a status other than 0
ProbeNonZero ==
    \E port \in Range(ports) :
        /\ Spawns(port)
        /\ run[port].kind = "nonzero"
        /\ stdout' = stdout \o Checking(port)
                     \o IfVerbose(<<Line("no_response",
                                         port.device \o <<"(">>
                                         \o error_message(run[port])
                                         \o <<")">>)>>)
        /\ NextPort
        /\ UNCHANGED <<verbose, comports, run, ports, detected_devices,
                       stderr, prev>>

\* ProbeNotFound without the return of line 89: the scan goes on
ProbeNotFound_continues ==
    \E port \in Range(ports) :
        /\ Spawns(port)
        /\ run[port].kind = "not_found"
        /\ stdout' = stdout \o Checking(port)
        /\ stderr' = Append(stderr, Line("esptool_not_found", <<>>))
        /\ NextPort
        /\ UNCHANGED <<verbose, comports, run, ports, detected_devices,
                       prev>>

\* lines 63-75, 87-89: esptool.py is not on the search path
ProbeNotFound ==
    \E port \in Range(ports) :
        /\ Spawns(port)
        /\ run[port].kind = "not_found"
        /\ stdout' = stdout \o Checking(port)
        /\ stderr' = Append(stderr, Line("esptool_not_found", <<>>))
        /\ pc' = "return"
        /\ UNCHANGED <<verbose, comports, run, ports, i, detected_devices,
                       prev>>

\* ProbeTimeout ending the scan as FileNotFoundError does
ProbeTimeout_aborts ==
    \E port \in Range(ports) :
        /\ Spawns(port)
        /\ run[port].kind = "timeout"
        /\ stdout' = stdout \o Checking(port)
                     \o IfVerbose(<<Line("timed_out", port.device)>>)
        /\ pc' = "return"
        /\ UNCHANGED <<verbose, comports, run, ports, i, detected_devices,
                       stderr, prev>>

\* lines 63-75, 90-92: esptool.py runs for more than 15 seconds
ProbeTimeout ==
    \E port \in Range(ports) :
        /\ Spawns(port)
        /\ run[port].kind = "timeout"
        /\ stdout' = stdout \o Checking(port)
                     \o IfVerbose(<<Line("timed_out", port.device)>>)
        /\ NextPort
        /\ UNCHANGED <<verbose, comports, run, ports, detected_devices,
                       stderr, prev>>

\* ProbeException without the file=sys.stderr of line 95
ProbeException_to_stdout ==
    \E port \in Range(ports) :
        /\ Spawns(port)
        /\ run[port].kind = "exception"
        /\ stdout' = stdout \o Checking(port)
                     \o IfVerbose(<<Line("exception",
                                         port.device \o <<":">>
                                         \o run[port].e)>>)
        /\ NextPort
        /\ UNCHANGED <<verbose, comports, run, ports, detected_devices,
                       stderr, prev>>

\* lines 63-75, 93-95: subprocess.run raises any other exception
ProbeException ==
    \E port \in Range(ports) :
        /\ Spawns(port)
        /\ run[port].kind = "exception"
        /\ stdout' = stdout \o Checking(port)
        /\ stderr' = stderr
                     \o IfVerbose(<<Line("exception",
                                         port.device \o <<":">>
                                         \o run[port].e)>>)
        /\ NextPort
        /\ UNCHANGED <<verbose, comports, run, ports, detected_devices,
                       prev>>

\* lines 97-126: some device was detected
PrintTable ==
    /\ pc = "report"
    /\ detected_devices # <<>>
    /\ stdout' = stdout \o table_lines(detected_devices)
    /\ pc' = "end"
    /\ UNCHANGED <<verbose, comports, run, ports, i, detected_devices,
                   stderr, spawned, prev>>

\* lines 97, 128-131: no device was detected, verbose
PrintBanner ==
    /\ pc = "report"
    /\ detected_devices = <<>>
    /\ verbose
    /\ stdout' = stdout \o banner_lines
    /\ pc' = "end"
    /\ UNCHANGED <<verbose, comports, run, ports, i, detected_devices,
                   stderr, spawned, prev>>

\* lines 97, 128: no device was detected, not verbose
PrintNothing ==
    /\ pc = "report"
    /\ detected_devices = <<>>
    /\ ~verbose
    /\ pc' = "end"
    /\ UNCHANGED <<verbose, comports, run, ports, i, detected_devices,
                   stdout, stderr, spawned, prev>>

\* the lines of the table among the lines printed
TableKinds ==
    {"table_rule", "table_title", "table_header", "table_separator",
     "table_row"}

OfKinds(lines, kinds) ==
    SelectSeq(lines, LAMBDA l : l.kind \in kinds)

\* what one invocation leaves behind
Outcomes ==
    [spawned |-> spawned, detected_devices |-> detected_devices,
     table |-> OfKinds(stdout, TableKinds)]

\* lines 134-146: the script is run once more on the same machine, with
\* the other setting of -v
Rerun ==
    /\ pc \in {"return", "end"}
    /\ prev = <<>>
    /\ prev' = <<Outcomes>>
    /\ verbose' = ~verbose
    /\ pc' = "enumerate"
    /\ ports' = <<>>
    /\ i' = 1
    /\ detected_devices' = <<>>
    /\ stdout' = <<>>
    /\ stderr' = <<>>
    /\ spawned' = <<>>
    /\ UNCHANGED <<comports, run>>

Next ==
    \/ EnumerateFail
    \/ EnumerateEmpty
    \/ EnumerateOk
    \/ ProbeSuccess
    \/ ProbeNonZero
    \/ ProbeNotFound
    \/ ProbeTimeout
    \/ ProbeException
    \/ PrintTable
    \/ PrintBanner
    \/ PrintNothing
    \/ Rerun

Spec ==
    Init /\ [][Next]_vars

(***************************************************************************)
(* The parser on its own: one port on which esptool.py exits with status  *)
(* 0, for every output of up to MaxLines lines.                            *)
(***************************************************************************)
InitParse ==
    /\ verbose \in BOOLEAN
    /\ comports \in {[raises |-> FALSE, e |-> <<>>,
                      ports |-> <<Port(DevicePaths[d])>>] :
                        d \in 1..Len(DevicePaths)}
    /\ run \in [Range(comports.ports) ->
                   {Outcome("exit0", t, <<>>, <<>>) : t \in OutputTexts}]
    /\ prev = <<>>
    /\ Start

NextParse ==
    \/ EnumerateOk
    \/ ProbeSuccess
    \/ PrintTable

SpecParse ==
    InitParse /\ [][NextParse]_vars

(***************************************************************************)
(* Vocabulary of the properties.                                           *)
(***************************************************************************)
BannerKinds ==
    {"banner_rule", "banner_text"}

\* the kinds of the lines that report a soft failure of one probe
DiagnosticKinds ==
    {"no_response", "timed_out", "exception"}

HasKind(lines, kinds) ==
    \E k \in 1..Len(lines) : lines[k].kind \in kinds

\* find_esp_devices has returned
Finished ==
    pc \in {"return", "end"}

\* the run has reported one of the two fatal errors
Fatal ==
    HasKind(stderr, {"enumeration_failed", "esptool_not_found"})

\* what esptool.py did on the k-th process spawned
SpawnedKind(k) ==
    run[Port(spawned[k])].kind

\* the device paths of the enumerated ports that satisfy test, in the order
\* of the device paths
InPathOrder(test(_)) ==
    SelectSeq(DevicePaths,
              LAMBDA d : Port(d) \in Range(comports.ports) /\ test(Port(d)))

\* the data rows of the table printed
Rows ==
    OfKinds(stdout, {"table_row"})

\* the cells of one printed row: split on " | ", padding trimmed
Cells(row) ==
    LET pieces == split(row, SEP)
    IN  [c \in 1..Len(pieces) |-> strip(pieces[c])]

\* the values of one record in the column order of the table
Values(device) ==
    [c \in 1..Len(HeaderKeys) |-> device[HeaderKeys[c]]]

(***************************************************************************)
(* C1                                                                      *)
(***************************************************************************)
\* C1: when the probe of a port fails because esptool.py is not found, the
\* scan stops at that port: the not-found message is on standard error, no
\* later port is probed, and neither a table nor the banner is printed,
\* whatever verbose is and whatever was detected before.
C1_AbortOnNotFound ==
    \A k \in 1..Len(spawned) :
        SpawnedKind(k) = "not_found" =>
            /\ k = Len(spawned)
            /\ pc = "return"
            /\ HasKind(stderr, {"esptool_not_found"})
            /\ ~HasKind(stdout, TableKinds \cup BannerKinds)

\* esptool.py is not found on a port after a device was detected on an
\* earlier one
C1_Witness ==
    /\ Len(spawned) >= 2
    /\ SpawnedKind(Len(spawned)) = "not_found"
    /\ detected_devices # <<>>
    /\ pc = "return"

(***************************************************************************)
(* C2                                                                      *)
(***************************************************************************)
\* C2: when no port's probe ends in executable-not-found, every enumerated
\* port is probed exactly once, in scan order: the processes spawned so far
\* are always the first ports of the scan order, each once, and when the
\* scan is over they are all of them; a failed or timed-out port is never
\* probed again.
C2_EachPortOnce ==
    (/\ ~comports.raises
     /\ \A p \in Range(comports.ports) : run[p].kind # "not_found")
    => /\ Len(spawned) <= Len(comports.ports)
       /\ \A k \in 1..Len(spawned) :
              spawned[k] = InPathOrder(LAMBDA p : TRUE)[k]
       /\ pc \in {"report", "return", "end"}
              => Len(spawned) = Len(comports.ports)

\* a port timed out or failed, and the port after it was probed all the same
C2_Witness ==
    /\ pc = "end"
    /\ \E k \in 1..(Len(spawned) - 1) :
           SpawnedKind(k) \in {"timeout", "nonzero", "exception"}

(***************************************************************************)
(* C3                                                                      *)
(***************************************************************************)
\* C3: when the scan completes without a fatal error, detected_devices has
\* exactly one record for each port whose probe exited with status 0 and
\* none for any other port, in the order of the device paths; each record's
\* 'port' is the device path of its port; and the table has exactly one
\* data row per record, in the same order.
C3_DetectedInScanOrder ==
    (Finished /\ ~Fatal)
    => /\ [k \in 1..Len(detected_devices) |-> detected_devices[k]["port"]]
          = InPathOrder(LAMBDA p : run[p].kind = "exit0")
       /\ Len(Rows) = Len(detected_devices)
       /\ \A k \in 1..Len(Rows) :
              Cells(Rows[k].text)[1] = detected_devices[k]["port"]

\* comports() returned the ports out of order; a device was detected on
\* one of them and none on another
C3_Witness ==
    /\ pc = "end"
    /\ ~Fatal
    /\ comports.ports # ports
    /\ Len(detected_devices) >= 1
    /\ Len(spawned) > Len(detected_devices)

(***************************************************************************)
(* C4                                                                      *)
(***************************************************************************)
\* C4: every record of detected_devices has all ten keys; each of the nine
\* parsed fields is group 1 of the leftmost match of its own pattern in the
\* output of the probe, stripped, whatever the other patterns match, and is
\* "N/A" whenever its pattern matches nowhere in the output.
C4_AllKeysFirstMatch ==
    \A k \in 1..Len(detected_devices) :
        LET d    == detected_devices[k]
            text == run[Port(spawned[k])].stdout
        IN  /\ DOMAIN d = Range(HeaderKeys)
            /\ \A c \in 1..Len(PatternKeys) :
                   LET key == PatternKeys[c]
                       pat == patterns[key]
                   IN  IF \A a \in 1..Len(text) : ~MatchAt(pat, text, a)
                       THEN d[key] = NA
                       ELSE \E a \in 1..Len(text) :
                                /\ MatchAt(pat, text, a)
                                /\ \A b \in 1..(a - 1) : ~MatchAt(pat, text, b)
                                /\ d[key] = strip(Group1(pat, text, a))

\* an output with two different MAC lines and no Features line
C4_Witness ==
    /\ pc = "end"
    /\ \E k \in 1..Len(detected_devices) :
           LET text == run[Port(spawned[k])].stdout
           IN  /\ detected_devices[k]["features"] = NA
               /\ detected_devices[k]["mac"] # NA
               /\ \E a, b \in 1..Len(text) :
                      /\ a < b
                      /\ MatchAt(patterns["mac"], text, a)
                      /\ MatchAt(patterns["mac"], text, b)
                      /\ Group1(patterns["mac"], text, a)
                         # Group1(patterns["mac"], text, b)

(***************************************************************************)
(* C5                                                                      *)
(***************************************************************************)
\* the largest element of a non-empty set of numbers
Largest(S) ==
    CHOOSE x \in S : \A y \in S : x >= y

\* the width the table must give to column c
ColumnWidth(c) ==
    Largest({Len(headers[HeaderKeys[c]])}
            \cup {Len(detected_devices[k][HeaderKeys[c]]) :
                    k \in 1..Len(detected_devices)})

\* the index at which column c must start in every line of the table
RECURSIVE ColumnStart(_)
ColumnStart(c) ==
    IF c = 1 THEN 1
    ELSE ColumnStart(c - 1) + ColumnWidth(c - 1) + Len(SEP)

\* the length every line of the table must have
TableWidth ==
    ColumnStart(Len(HeaderKeys)) + ColumnWidth(Len(HeaderKeys)) - 1

\* line carries cell, padded with pad, in column c, and then the delimiter
CellAt(line, c, cell, pad, delimiter) ==
    /\ SubSeq(line, ColumnStart(c), ColumnStart(c) + ColumnWidth(c) - 1)
       = cell \o Repeat(pad, ColumnWidth(c) - Len(cell))
    /\ c < Len(HeaderKeys)
       => SubSeq(line, ColumnStart(c) + ColumnWidth(c),
                 ColumnStart(c + 1) - 1) = delimiter

\* C5: in the table printed for a non-empty detected_devices, the width of
\* each column is the largest of the length of its header label and of the
\* lengths of all its values; the header row, the separator row, every data
\* row and the '=' rules have the same length, and every column starts at
\* the same index in all of them.
C5_ColumnsAligned ==
    (pc = "end" /\ detected_devices # <<>>)
    => /\ \A k \in 1..Len(stdout) :
              stdout[k].kind \in TableKinds \ {"table_title"}
              => Len(stdout[k].text) = TableWidth
       /\ \A k \in 1..Len(stdout), c \in 1..Len(HeaderKeys) :
              /\ stdout[k].kind = "table_header"
                 => CellAt(stdout[k].text, c, headers[HeaderKeys[c]], " ", SEP)
              /\ stdout[k].kind = "table_separator"
                 => CellAt(stdout[k].text, c, <<>>, "-", SEPDASH)
       /\ Len(Rows) = Len(detected_devices)
       /\ \A r \in 1..Len(Rows), c \in 1..Len(HeaderKeys) :
              CellAt(Rows[r].text, c, detected_devices[r][HeaderKeys[c]],
                     " ", SEP)

\* a table of two records in which one column is as wide as its label, one
\* as wide as a value, and the two records differ in length in a column
C5_Witness ==
    /\ pc = "end"
    /\ Len(detected_devices) >= 2
    /\ \E c \in 1..Len(HeaderKeys) :
           ColumnWidth(c) > Len(headers[HeaderKeys[c]])
    /\ \E c \in 1..Len(HeaderKeys) :
           \A k \in 1..Len(detected_devices) :
               Len(detected_devices[k][HeaderKeys[c]]) < ColumnWidth(c)
    /\ \E c \in 1..Len(HeaderKeys) :
           Len(detected_devices[1][HeaderKeys[c]])
           # Len(detected_devices[2][HeaderKeys[c]])

(***************************************************************************)
(* C6                                                                      *)
(***************************************************************************)
\* C6 as stated: for every record that reaches the table, splitting its
\* printed row on " | " and trimming each piece gives back the record's ten
\* values in column order.
C6_RoundTrip ==
    \A r \in 1..Len(Rows) :
        r <= Len(detected_devices)
        => Cells(Rows[r].text) = Values(detected_devices[r])

\* no value of the record contains the character '|', and its port has no
\* leading or trailing whitespace
SplitsCleanly(device) ==
    /\ \A key \in DOMAIN device : "|" \notin Range(device[key])
    /\ strip(device["port"]) = device["port"]

\* C6 as amended: for every record that reaches the table and none of whose
\* values contains the character '|' (and whose port path has no leading or
\* trailing whitespace), splitting its printed row on " | " and trimming
\* each piece gives back the record's ten values in column order.
C6_RoundTripWithoutBar ==
    \A r \in 1..Len(Rows) :
        (r <= Len(detected_devices) /\ SplitsCleanly(detected_devices[r]))
        => Cells(Rows[r].text) = Values(detected_devices[r])

\* a row whose values are padded, printed in a table that another record
\* makes wider
C6_Witness ==
    /\ pc = "end"
    /\ \E r \in 1..Len(Rows) :
           /\ SplitsCleanly(detected_devices[r])
           /\ \E c \in 1..Len(HeaderKeys) :
                  /\ detected_devices[r][HeaderKeys[c]] # NA
                  /\ Len(detected_devices[r][HeaderKeys[c]]) < ColumnWidth(c)
                  /\ ColumnWidth(c) > Len(headers[HeaderKeys[c]])

C8_EnumerationFailureEndsScan ==
    pc # "enumerate"
    => /\ comports.raises
          => /\ pc = "return"
             /\ stderr = <<Line("enumeration_failed", comports.e)>>
             /\ spawned = <<>>
             /\ detected_devices = <<>>
             /\ ~HasKind(stdout, TableKinds \cup BannerKinds)
       /\ (~comports.raises /\ comports.ports = <<>>)
          => /\ pc = "return"
             /\ stderr = <<>>
             /\ spawned = <<>>

\* a verbose run in which comports() has raised
C8_Witness ==
    /\ comports.raises
    /\ verbose
    /\ pc = "return"
    /\ stderr # <<>>

(***************************************************************************)
(* C9                                                                      *)
(***************************************************************************)
\* the text of the diagnostic of the k-th process spawned names its port
Names(line, k) ==
    StartsAt(line.text, 1, spawned[k])

\* the iteration of the loop on the k-th process spawned is over
Handled(k) ==
    k < i \/ Finished

\* C9 as stated: in verbose mode the diagnostic of every soft failure
\* (non-zero exit, timeout, unexpected exception) is on standard error, and
\* standard output carries only progress lines and the table.
C9_DiagnosticsOnStderr ==
    verbose
    => /\ \A k \in 1..Len(spawned) :
              (Handled(k) /\ SpawnedKind(k) \in {"nonzero", "timeout", "exception"})
              => \E n \in 1..Len(stderr) :
                     /\ stderr[n].kind \in DiagnosticKinds
                     /\ Names(stderr[n], k)
       /\ ~HasKind(stdout, DiagnosticKinds)

\* C9 as amended: in verbose mode the diagnostic of an unexpected exception
\* is on standard error and not on standard output; the diagnostics of a
\* non-zero exit and of a timeout are on standard output and not on
\* standard error.
C9_ExceptionOnStderrOnly ==
    verbose
    => /\ \A k \in 1..Len(spawned) :
              Handled(k)
              => /\ SpawnedKind(k) = "exception"
                    => \E n \in 1..Len(stderr) :
                           /\ stderr[n].kind = "exception"
                           /\ Names(stderr[n], k)
                 /\ SpawnedKind(k) = "nonzero"
                    => \E n \in 1..Len(stdout) :
                           /\ stdout[n].kind = "no_response"
                           /\ Names(stdout[n], k)
                 /\ SpawnedKind(k) = "timeout"
                    => \E n \in 1..Len(stdout) :
                           /\ stdout[n].kind = "timed_out"
                           /\ Names(stdout[n], k)
       /\ ~HasKind(stdout, {"exception"})
       /\ ~HasKind(stderr, {"no_response", "timed_out"})

\* a verbose scan with an exception on one port and a non-zero exit or a
\* timeout on another
C9_Witness ==
    /\ verbose
    /\ Finished
    /\ \E a, b \in 1..Len(spawned) :
           /\ SpawnedKind(a) = "exception"
           /\ SpawnedKind(b) \in {"nonzero", "timeout"}

(***************************************************************************)
(* C10                                                                     *)
(***************************************************************************)
\* C10: on the same ports with the same outcomes of the probes, the run
\* with verbose and the run without spawn the same processes in the same
\* order, end with the same detected_devices and print the same table, or
\* both none.
C10_VerboseDoesNotChangeResult ==
    (prev # <<>> /\ Finished) => prev[1] = Outcomes

\* both runs are over; a device was detected and a probe failed
C10_Witness ==
    /\ prev # <<>>
    /\ pc = "end"
    /\ detected_devices # <<>>
    /\ Len(spawned) > Len(detected_devices)
    /\ HasKind(stdout, TableKinds)
    /\ prev[1].table # <<>>
=============================================================================
